---- MODULE Spec2Model ----
(***************************************************************************)
(* A model of the content-addressable file store of mdigger/filestore.    *)
(*                                                                         *)
(*   src/store.go          package filestore: Open, Store.Create,          *)
(*                         Store.Open, Store.Remove, Store.Clean           *)
(*   src/unnamed/part_000  package httpfs: Store.absPath, of the variant   *)
(*                         of the store that confines names to its root    *)
(*                                                                         *)
(* Strings are sequences of one-character strings, so that slicing         *)
(* (name[:1], name[1:3], name[3:]), strings.HasPrefix, filepath.Clean and  *)
(* filepath.Join can be computed as the library computes them.  A path of  *)
(* the filesystem is the sequence of the components of a cleaned absolute  *)
(* path.  The content name is computed for real: CRC-32 (IEEE) and MD5 of  *)
(* the bytes, base64 (raw URL alphabet) of the 20 bytes.                   *)
(***************************************************************************)
EXTENDS Integers, Sequences, FiniteSets, TLC

(***************************************************************************)
(* 32-bit words.  TLC's integers are 32-bit signed, so a word is kept as   *)
(* the pair <<high 16 bits, low 16 bits>>.                                 *)
(***************************************************************************)
\* 2^n, 0 <= n <= 16
Pow2(n) ==
  << 1, 2, 4, 8, 16, 32, 64, 128, 256, 512, 1024, 2048, 4096, 8192, 16384,
     32768, 65536 >>[n + 1]

H16 == 256 * 256

\* the bitwise and of two numbers of n bits: of the low half of the bits and
\* of the high half
RECURSIVE And16(_, _, _)
And16(a, b, n) ==
  IF n = 1 THEN a * b
  ELSE LET h == Pow2(n \div 2)
       IN  And16(a % h, b % h, n \div 2)
             + h * And16(a \div h, b \div h, n - n \div 2)

WAnd(x, y) == << And16(x[1], y[1], 16), And16(x[2], y[2], 16) >>
WOr(x, y)  == << x[1] + y[1] - And16(x[1], y[1], 16),
                 x[2] + y[2] - And16(x[2], y[2], 16) >>
WXor(x, y) == << x[1] + y[1] - 2 * And16(x[1], y[1], 16),
                 x[2] + y[2] - 2 * And16(x[2], y[2], 16) >>
WNot(x)    == << (H16 - 1) - x[1], (H16 - 1) - x[2] >>
WAdd(x, y) == << (x[1] + y[1] + ((x[2] + y[2]) \div H16)) % H16,
                 (x[2] + y[2]) % H16 >>
\* rotate left by s, 0 <= s < 32
WRotl(x, s) ==
  LET hi == IF s >= 16 THEN x[2] ELSE x[1]
      lo == IF s >= 16 THEN x[1] ELSE x[2]
      r  == s % 16
  IN  << ((hi * Pow2(r)) % H16) + (lo \div Pow2(16 - r)),
         ((lo * Pow2(r)) % H16) + (hi \div Pow2(16 - r)) >>
WShr1(x) == << x[1] \div 2, (x[2] \div 2) + (x[1] % 2) * 32768 >>

\* the four bytes of a word, most significant first / least significant first
WBytesBE(x) == << x[1] \div 256, x[1] % 256, x[2] \div 256, x[2] % 256 >>
WBytesLE(x) == << x[2] % 256, x[2] \div 256, x[1] % 256, x[1] \div 256 >>

(***************************************************************************)
(* hash/crc32, crc32.NewIEEE(): the reflected CRC-32 with polynomial       *)
(* 0xEDB88320, initial value and final xor 0xFFFFFFFF.                     *)
(***************************************************************************)
CrcPoly == << 60856, 33568 >>      \* 0xEDB8 8320
WOnes   == << 65535, 65535 >>

\* n steps of the bitwise update, n > 0: half of them and then the rest
RECURSIVE CrcBits(_, _)
CrcBits(crc, n) ==
  IF n = 1
    THEN IF crc[2] % 2 = 1 THEN WXor(WShr1(crc), CrcPoly) ELSE WShr1(crc)
    ELSE LET half == CrcBits(crc, n \div 2)
         IN  IF half[1] < 0 THEN half ELSE CrcBits(half, n - n \div 2)

RECURSIVE CrcUpdate(_, _)
CrcUpdate(crc, bytes) ==
  IF bytes = << >> THEN crc
  ELSE CrcUpdate(CrcBits(WXor(crc, << 0, Head(bytes) >>), 8), Tail(bytes))

\* crc32.Sum32() of the bytes written
Crc32(bytes) == WXor(CrcUpdate(WOnes, bytes), WOnes)

(***************************************************************************)
(* crypto/md5.  The model's contents are shorter than 56 bytes, so the     *)
(* padded message is one 64-byte block.                                    *)
(***************************************************************************)
Md5S ==
  << 7, 12, 17, 22, 7, 12, 17, 22, 7, 12, 17, 22, 7, 12, 17, 22,
     5,  9, 14, 20, 5,  9, 14, 20, 5,  9, 14, 20, 5,  9, 14, 20,
     4, 11, 16, 23, 4, 11, 16, 23, 4, 11, 16, 23, 4, 11, 16, 23,
     6, 10, 15, 21, 6, 10, 15, 21, 6, 10, 15, 21, 6, 10, 15, 21 >>

Md5K ==
  << <<55146, 42104>>, <<59591, 46934>>, <<9248, 28891>>, <<49597, 52974>>,
     <<62844, 4015>>, <<18311, 50730>>, <<43056, 17939>>, <<64838, 38145>>,
     <<27008, 39128>>, <<35652, 63407>>, <<65535, 23473>>, <<35164, 55230>>,
     <<27536, 4386>>, <<64920, 29075>>, <<42617, 17294>>, <<18868, 2081>>,
     <<63006, 9570>>, <<49216, 45888>>, <<9822, 23121>>, <<59830, 51114>>,
     <<54831, 4189>>, <<580, 5203>>, <<55457, 59009>>, <<59347, 64456>>,
     <<8673, 52710>>, <<49975, 2006>>, <<62677, 3463>>, <<17754, 5357>>,
     <<43491, 59653>>, <<64751, 41976>>, <<26479, 729>>, <<36138, 19594>>,
     <<65530, 14658>>, <<34673, 63105>>, <<28061, 24866>>, <<64997, 14348>>,
     <<42174, 59972>>, <<19422, 53161>>, <<63163, 19296>>, <<48831, 48240>>,
     <<10395, 32454>>, <<60065, 10234>>, <<54511, 12421>>, <<1160, 7429>>,
     <<55764, 53305>>, <<59099, 39397>>, <<8098, 31992>>, <<50348, 22117>>,
     <<62505, 8772>>, <<17194, 65431>>, <<43924, 9127>>, <<64659, 41017>>,
     <<25947, 22979>>, <<36620, 52370>>, <<65519, 62589>>, <<34180, 24017>>,
     <<28584, 32335>>, <<65068, 59104>>, <<41729, 17172>>, <<19976, 4513>>,
     <<63315, 32386>>, <<48442, 62005>>, <<10967, 53947>>, <<60294, 54161>> >>

Md5Init == << <<26437, 8961>>, <<61389, 43913>>, <<39098, 56574>>, <<4146, 21622>> >>

Zeros(n) == [k \in 1..n |-> 0]

\* the padded block: the bytes, 0x80, zeros, the bit length as 8 bytes LE
Md5Block(bytes) ==
  LET bits == 8 * Len(bytes)
  IN  bytes \o << 128 >> \o Zeros(55 - Len(bytes))
        \o << bits % 256, bits \div 256, 0, 0, 0, 0, 0, 0 >>

\* word g (0..15) of the block, little-endian
Md5Word(blk, g) ==
  << blk[4 * g + 4] * 256 + blk[4 * g + 3], blk[4 * g + 2] * 256 + blk[4 * g + 1] >>

\* round i (0..63) of the block transform
Md5Step(st, blk, i) ==
  LET a == st[1]
      b == st[2]
      c == st[3]
      d == st[4]
      f == IF i < 16 THEN WOr(WAnd(b, c), WAnd(WNot(b), d))
           ELSE IF i < 32 THEN WOr(WAnd(b, d), WAnd(c, WNot(d)))
           ELSE IF i < 48 THEN WXor(b, WXor(c, d))
           ELSE WXor(c, WOr(b, WNot(d)))
      g == IF i < 16 THEN i
           ELSE IF i < 32 THEN (5 * i + 1) % 16
           ELSE IF i < 48 THEN (3 * i + 5) % 16
           ELSE (7 * i) % 16
      t == WAdd(WAdd(a, f), WAdd(Md5K[i + 1], Md5Word(blk, g)))
  IN  << d, WAdd(b, WRotl(t, Md5S[i + 1])), b, c >>

\* the n rounds from round i on, the first half of them and then the rest.
\* A word is never negative: the test only makes TLC compute the first half
\* before it goes on.
RECURSIVE Md5Rounds(_, _, _, _)
Md5Rounds(st, blk, i, n) ==
  IF n = 1 THEN Md5Step(st, blk, i)
  ELSE LET half == Md5Rounds(st, blk, i, n \div 2)
       IN  IF half[2][1] < 0 THEN half
           ELSE Md5Rounds(half, blk, i + n \div 2, n - n \div 2)

\* md5.Sum(nil): the 16 digest bytes
Md5(bytes) ==
  LET st == Md5Rounds(Md5Init, Md5Block(bytes), 0, 64)
  IN  WBytesLE(WAdd(Md5Init[1], st[1])) \o WBytesLE(WAdd(Md5Init[2], st[2]))
        \o WBytesLE(WAdd(Md5Init[3], st[3])) \o WBytesLE(WAdd(Md5Init[4], st[4]))

(***************************************************************************)
(* encoding/base64, RawURLEncoding.EncodeToString: no padding.             *)
(***************************************************************************)
B64Alphabet ==
  << "A", "B", "C", "D", "E", "F", "G", "H", "I", "J", "K", "L", "M",
     "N", "O", "P", "Q", "R", "S", "T", "U", "V", "W", "X", "Y", "Z",
     "a", "b", "c", "d", "e", "f", "g", "h", "i", "j", "k", "l", "m",
     "n", "o", "p", "q", "r", "s", "t", "u", "v", "w", "x", "y", "z",
     "0", "1", "2", "3", "4", "5", "6", "7", "8", "9", "-", "_" >>

B64(n) == B64Alphabet[n + 1]

\* character q is the q-th group of six bits of the bytes, the last group
\* filled up with zero bits: the bits are taken from the two bytes they lie in
Base64RawURL(bytes) ==
  LET At(k)   == IF k <= Len(bytes) THEN bytes[k] ELSE 0
      Six(q)  == LET first == (6 * (q - 1)) \div 8
                     skip  == (6 * (q - 1)) % 8
                 IN  ((At(first + 1) * 256 + At(first + 2)) \div Pow2(10 - skip)) % 64
  IN  [q \in 1..((8 * Len(bytes) + 5) \div 6) |-> B64(Six(q))]

\* FileInfo.Name of the bytes written (store.go 81-82)
ContentName(bytes) == Base64RawURL(WBytesBE(Crc32(bytes)) \o Md5(bytes))

(***************************************************************************)
(* Strings: package strings and path/filepath on a system whose separator  *)
(* is "/".                                                                 *)
(***************************************************************************)
filepathSeparator == "/"

\* the bytes the model's names are made of, in byte order (sort.Strings)
ByteOrder ==
  << "-", ".", "/", "0", "1", "2", "3", "4", "5", "6", "7", "8", "9",
     "A", "B", "C", "D", "E", "F", "G", "H", "I", "J", "K", "L", "M",
     "N", "O", "P", "Q", "R", "S", "T", "U", "V", "W", "X", "Y", "Z", "_",
     "a", "b", "c", "d", "e", "f", "g", "h", "i", "j", "k", "l", "m",
     "n", "o", "p", "q", "r", "s", "t", "u", "v", "w", "x", "y", "z", "~" >>

Ord(c) == CHOOSE i \in 1..Len(ByteOrder) : ByteOrder[i] = c

RECURSIVE StrLess(_, _)
StrLess(a, b) ==
  IF b = << >> THEN FALSE
  ELSE IF a = << >> THEN TRUE
  ELSE IF Head(a) = Head(b) THEN StrLess(Tail(a), Tail(b))
  ELSE Ord(Head(a)) < Ord(Head(b))

\* s[i:j] of Go, 0-based, j exclusive
Slice(s, i, j) == SubSeq(s, i + 1, j)
SliceFrom(s, i) == SubSeq(s, i + 1, Len(s))

HasPrefix(s, prefix) ==
  Len(s) >= Len(prefix) /\ SubSeq(s, 1, Len(prefix)) = prefix

TrimPrefix(s, prefix) ==
  IF HasPrefix(s, prefix) THEN SliceFrom(s, Len(prefix)) ELSE s

\* the position of the first separator of s at or after i, 0 when there is
\* none
IndexSep(s, i) ==
  LET at == { k \in i..Len(s) : s[k] = filepathSeparator }
  IN  IF at = {} THEN 0 ELSE CHOOSE k \in at : \A j \in at : k <= j

\* strings.SplitN(s, "/", n), n > 0: at most n parts, the last one the
\* unsplit rest; s is cut at its first n - 1 separators
SplitN(s, n) ==
  LET seps   == { k \in 1..Len(s) : s[k] = filepathSeparator }
      cuts   == { k \in seps : Cardinality({ j \in seps : j < k }) < n - 1 }
      m      == Cardinality(cuts)
      Cut(q) == CHOOSE k \in cuts : Cardinality({ j \in cuts : j <= k }) = q
  IN  [q \in 1..(m + 1) |->
         SubSeq(s, IF q = 1 THEN 1 ELSE Cut(q - 1) + 1,
                   IF q = m + 1 THEN Len(s) ELSE Cut(q) - 1)]

\* strings.Split(s, "/")
Split(s) == SplitN(s, Len(s) + 1)

\* strings.Join(parts, "/")
RECURSIVE JoinSep(_)
JoinSep(parts) ==
  IF parts = << >> THEN << >>
  ELSE IF Len(parts) = 1 THEN parts[1]
  ELSE LET h == Len(parts) \div 2
       IN  JoinSep(SubSeq(parts, 1, h)) \o << filepathSeparator >>
             \o JoinSep(SubSeq(parts, h + 1, Len(parts)))

\* the elements filepath.Clean keeps: "" and "." are dropped, ".." takes
\* back the element before it, or stays when there is none to take back
\* (in a rooted path it is dropped: "/.." is "/")
RECURSIVE CleanParts(_, _, _)
CleanParts(parts, out, rooted) ==
  IF parts = << >> THEN out
  ELSE
    LET e == Head(parts)
    IN  IF e = << >> \/ e = << "." >> THEN CleanParts(Tail(parts), out, rooted)
        ELSE IF e = << ".", "." >> THEN
          IF out # << >> /\ out[Len(out)] # << ".", "." >>
            THEN CleanParts(Tail(parts), SubSeq(out, 1, Len(out) - 1), rooted)
          ELSE IF rooted THEN CleanParts(Tail(parts), out, rooted)
          ELSE CleanParts(Tail(parts), Append(out, e), rooted)
        ELSE CleanParts(Tail(parts), Append(out, e), rooted)

\* filepath.Clean
FilepathClean(s) ==
  IF s = << >> THEN << "." >>
  ELSE
    LET rooted == s[1] = filepathSeparator
        kept   == CleanParts(Split(s), << >>, rooted)
    IN  IF rooted THEN << filepathSeparator >> \o JoinSep(kept)
        ELSE IF kept = << >> THEN << "." >>
        ELSE JoinSep(kept)

NonEmpty(elems) == SelectSeq(elems, LAMBDA e : e # << >>)

\* filepath.Join: the non-empty elements joined by the separator, cleaned
FilepathJoin(elems) ==
  IF NonEmpty(elems) = << >> THEN << >>
  ELSE FilepathClean(JoinSep(NonEmpty(elems)))

\* the position of the last separator of s at or before i, 0 when there is
\* none
LastSep(s, i) ==
  LET at == { k \in 1..i : s[k] = filepathSeparator }
  IN  IF at = {} THEN 0 ELSE CHOOSE k \in at : \A j \in at : k >= j

\* filepath.Dir: all but the last element, cleaned
FilepathDir(s) == FilepathClean(SubSeq(s, 1, LastSep(s, Len(s))))

\* The filesystem's view of a cleaned absolute path: its components.
Components(s) == NonEmpty(Split(s))

(***************************************************************************)
(* Bounds of the model and constants of the program.                       *)
(***************************************************************************)
\* calls of one behaviour of Spec and of SpecCreate
MaxCalls == 3
\* calls of Spec that run at the same time
MaxConc == 2
\* calls of one behaviour of SpecSeq, one after the other
SeqOps == 3
\* the clock runs from 0 to MaxTime, in Spec and SpecCreate to ConcTime
MaxTime == 2
ConcTime == 1
\* the longest lifetime passed to Clean
MaxLifetime == 1
\* distinct temporary names ioutil.TempFile draws from
MaxTmp == 2
\* len(name) < 27 (store.go 124, 154)
NameLen == 27
\* for i := 0; i < 2; i++ (store.go 163, 195)
PruneLevels == 2
\* segments of a name passed to absPath
MaxParts == 4

\* the calls of a behaviour are numbered
Slots == 1..(IF MaxCalls > SeqOps THEN MaxCalls ELSE SeqOps)

\* Store.root, an absolute path
StoreRoot == << "/", "s" >>

\* the prefixes the callers pass: none, or the subdirectory "p"
Prefixes == { << >>, << "p" >> }

\* the contents the callers store: "ao", "wsd" and "m".  The names of "ao"
\* and "wsd" share their first three characters (both shard directories),
\* the name of "m" shares only the first with them.
Contents == { << 97, 111 >>, << 119, 115, 100 >>, << 109 >> }

\* computed once
NameOf == [c \in Contents |-> ContentName(c)]

\* lifetimes passed to Clean
Lifetimes == 0..MaxLifetime

Digits == << "0", "1", "2", "3", "4", "5", "6", "7", "8", "9" >>

\* ioutil.TempFile(root, "~tmp"): "~tmp" and a random number (one digit here)
TmpNames == { << "~", "t", "m", "p", Digits[n] >> : n \in 1..MaxTmp }

(***************************************************************************)
(* The filesystem: a function from the paths that exist (sequences of      *)
(* components, << >> is "/") to directories and files.  A file has its     *)
(* bytes, its modification time, the call that created it (by; 0: it was   *)
(* there before the calls the model follows) and whether that call still   *)
(* holds it open for writing (w).                                          *)
(***************************************************************************)
DirNode == [k |-> "d"]
FileNode(bytes, t, i) == [k |-> "f", data |-> bytes, mt |-> t, by |-> i, w |-> i # 0]

PathString(p) == << filepathSeparator >> \o JoinSep(p)

Parent(p) == SubSeq(p, 1, Len(p) - 1)
Exists(f, p) == p \in DOMAIN f
IsFile(f, p) == p \in DOMAIN f /\ f[p].k = "f"
IsDir(f, p) == p \in DOMAIN f /\ f[p].k = "d"
\* p is d or lies below d, component by component
Under(p, d) == Len(p) >= Len(d) /\ SubSeq(p, 1, Len(d)) = d
Entries(f, d) == { p \in DOMAIN f : Len(p) = Len(d) + 1 /\ Parent(p) = d }
Drop(f, gone) == [p \in (DOMAIN f) \ gone |-> f[p]]

\* os.Remove: a file, or an empty directory
OsRemoveOk(f, p) ==
  /\ p \in DOMAIN f
  /\ p # << >>
  /\ f[p].k = "f" \/ Entries(f, p) = {}
\* a faulty os.Remove, which reports what it should and removes nothing
OsRemoveNothing(f, p) == f
OsRemove(f, p) == IF OsRemoveOk(f, p) THEN Drop(f, {p}) ELSE f

\* os.RemoveAll: the path and everything below it; no error when it is absent
OsRemoveAll(f, p) == Drop(f, { q \in DOMAIN f : Under(q, p) })

\* os.MkdirAll: fails when a component of the path is a file
OsMkdirAllOk(f, p) == \A n \in 1..Len(p) : ~IsFile(f, SubSeq(p, 1, n))
OsMkdirAll(f, p) ==
  IF OsMkdirAllOk(f, p)
    THEN [q \in (DOMAIN f) \cup { SubSeq(p, 1, n) : n \in 0..Len(p) } |->
            IF q \in DOMAIN f THEN f[q] ELSE DirNode]
    ELSE f

\* a faulty rename, which fails when the target exists
OsRenameOkNoReplace(f, old, new) ==
  IsFile(f, old) /\ IsDir(f, Parent(new)) /\ ~Exists(f, new)

\* os.Rename of a file: the target's directory must exist, the target must
\* not be a directory; an existing file at the target is replaced
OsRenameOk(f, old, new) ==
  IsFile(f, old) /\ IsDir(f, Parent(new)) /\ ~IsDir(f, new)
OsRename(f, old, new) ==
  IF ~OsRenameOk(f, old, new) \/ old = new THEN f
  ELSE [q \in ((DOMAIN f) \ {old}) \cup {new} |->
          IF q = new THEN f[old] ELSE f[q]]

\* os.Chtimes: fails when nothing is at the path
OsChtimesOk(f, p) == p \in DOMAIN f
OsChtimes(f, p, t) == IF IsFile(f, p) THEN [f EXCEPT ![p].mt = t] ELSE f

\* the free temporary names of directory d
FreeTmp(f, d) == { t \in TmpNames : Append(d, t) \notin DOMAIN f }

\* the file call i holds open for writing, wherever it is now
OpenForWrite(f, i) == { p \in DOMAIN f : f[p].k = "f" /\ f[p].by = i /\ f[p].w }

\* a faulty write: close(2) with none of the bytes written
WriteCloseNothing(f, i, bytes, t) ==
  [p \in DOMAIN f |->
     IF p \in OpenForWrite(f, i) THEN [f[p] EXCEPT !.w = FALSE] ELSE f[p]]

\* write(2) of the bytes, then close(2), by call i
WriteClose(f, i, bytes, t) ==
  [p \in DOMAIN f |->
     IF p \in OpenForWrite(f, i)
       THEN [f[p] EXCEPT !.data = @ \o bytes,
                         !.mt = IF bytes = << >> THEN @ ELSE t,
                         !.w = FALSE]
       ELSE f[p]]


\* the names of the entries of d, sorted (readDirNames of filepath.Walk)
RECURSIVE SortNames(_)
SortNames(names) ==
  IF names = {} THEN << >>
  ELSE LET first == CHOOSE a \in names : \A b \in names \ {a} : StrLess(a, b)
       IN  << first >> \o SortNames(names \ {first})
ReadDirNames(f, d) == SortNames({ p[Len(p)] : p \in Entries(f, d) })

(***************************************************************************)
(* Names and paths of the store.                                           *)
(***************************************************************************)
Root == Components(StoreRoot)

\* filepath.Join(s.root, prefix, name[:1], name[1:3], name[3:])
\* (store.go 96, 128, 157), for len(name) >= 3
FullName(prefix, name) ==
  FilepathJoin(<< StoreRoot, prefix, Slice(name, 0, 1), Slice(name, 1, 3),
                  SliceFrom(name, 3) >>)

\* the names Open and Remove are called with: the names of the contents, a
\* name shorter than NameLen,
ShortName == << "4", "D", "I" >>
\* names of NameLen characters or more that no content has: one made of
\* "." and ".." segments, "././././././././././././../o", and an absolute one
Repeat(s, n) == [k \in 1..(n * Len(s)) |-> s[((k - 1) % Len(s)) + 1]]
DotsName == Repeat(<< ".", "/" >>, 12) \o << ".", ".", "/", "o" >>
AbsoluteName == << "/" >> \o NameOf[<< 109 >>]
\* the longest name that is too short
AlmostName == Repeat(<< "4" >>, NameLen - 1)
Names ==
  { NameOf[c] : c \in Contents } \cup { ShortName, AlmostName, DotsName, AbsoluteName }

\* computed once: root := filepath.Join(s.root, prefix) (store.go 45), the
\* paths the calls name, and the directory of each path at or above them
\* (filepath.Dir)
PrefixDirs == [pf \in Prefixes |-> Components(FilepathJoin(<< StoreRoot, pf >>))]
PrefixDir(prefix) == PrefixDirs[prefix]
FullNames ==
  [pf \in Prefixes, n \in { m \in Names : Len(m) >= 3 } |->
     Components(FullName(pf, n))]
TmpPaths ==
  { Append(PrefixDir(pf), t) : pf \in Prefixes, t \in TmpNames }
Dirs ==
  LET paths == { FullNames[x] : x \in DOMAIN FullNames } \cup TmpPaths
  IN  [p \in UNION { { SubSeq(q, 1, n) : n \in 0..Len(q) } : q \in paths } |->
         Components(FilepathDir(PathString(p)))]
DirOf(p) == Dirs[p]

\* where the blob of content c is stored under the prefix
BlobPath(prefix, c) == FullNames[prefix, NameOf[c]]
BlobPaths == { BlobPath(pf, c) : pf \in Prefixes, c \in Contents }

(***************************************************************************)
(* absPath (part_000 43-59): the path of a name in the store, or            *)
(* os.ErrPermission.                                                       *)
(***************************************************************************)
\* filepath.FromSlash: every "/" becomes the separator
FromSlash(s) == [n \in 1..Len(s) |-> IF s[n] = "/" THEN filepathSeparator ELSE s[n]]

\* how many parts absPath keeps: SplitN(name, sep, 4), parts[:3] (48-51)
KeptParts == 3

absPath(root, name) ==
  LET slashed == FromSlash(name)
      trimmed == IF HasPrefix(slashed, << filepathSeparator >>)
                   THEN TrimPrefix(slashed, << filepathSeparator >>)
                   ELSE slashed
      parts   == SplitN(trimmed, KeptParts + 1)
      kept    == IF Len(parts) > KeptParts THEN SubSeq(parts, 1, KeptParts) ELSE parts
      joined  == FilepathClean(FilepathJoin(<< root, JoinSep(kept) >>))
  IN  IF ~HasPrefix(joined, root)
        THEN [path |-> << >>, err |-> "ErrPermission"]
        ELSE [path |-> joined, err |-> "nil"]

\* the names absPath is called with: up to MaxParts segments, joined by "/",
\* with and without a leading "/"
Segments == { << >>, << "." >>, << ".", "." >>, << "x" >>, << "s" >>, << "s", "2" >> }
RECURSIVE SegmentSeqs(_)
SegmentSeqs(n) ==
  IF n = 0 THEN { << >> }
  ELSE LET shorter == SegmentSeqs(n - 1)
       IN  shorter \cup { Append(q, e) : q \in { r \in shorter : Len(r) = n - 1 },
                                          e \in Segments }
AbsNames ==
  LET rel == { JoinSep(q) : q \in SegmentSeqs(MaxParts) }
  IN  rel \cup { << "/" >> \o n : n \in rel }

VARIABLES
  fs,      \* the filesystem
  now,     \* the clock (time.Now())
  calls,   \* the calls of the store's operations, running and returned
  nops,    \* SpecSeq: the calls started so far
  pre,     \* SpecSeq: the filesystem when the last call started
  prev,    \* SpecSeq: "wiped" after Clean(lifetime <= 0) has returned nil,
           \* "reopened" after the Open(root) that follows it, "touched"
           \* after a call that has given a blob a later modification time
  stored,  \* SpecSeq: the <<prefix, content, Name>> of the calls of Create
           \* that have returned nil, with no Remove and no Clean started since
  removed  \* SpecSeq: the <<prefix, name>> of the calls of Remove that have
           \* returned nil, with no Create that has returned that name since

ghost == << nops, pre, prev, stored, removed >>
vars == << fs, now, calls, nops, pre, prev, stored, removed >>

\* the io.Reader given to Create: the bytes it gives, or its failure
Reader(bytes) == [data |-> bytes, fails |-> FALSE]
BadReader == [data |-> << >>, fails |-> TRUE]
NoReader == Reader(<< >>)
Readers == { Reader(c) : c \in Contents } \cup { BadReader }

NoCall ==
  [op |-> "none", pc |-> "idle", prefix |-> << >>, name |-> << >>,
   data |-> << >>, tmp |-> << >>, path |-> << >>, k |-> 0, valid |-> 0,
   stack |-> << >>, err |-> "", via |-> "", r |-> NoReader, now |-> 0]

IdleCalls == [i \in Slots |-> NoCall]

\* a call returns
Return(c, e) == [c EXCEPT !.pc = "done", !.err = e]

(***************************************************************************)
(* Open(root) (store.go 23-29): the root directory is made if absent.      *)
(***************************************************************************)
OpenStore(i, base, f) ==
  /\ fs' = OsMkdirAll(f, Root)
  /\ calls' = [base EXCEPT ![i] =
       Return([NoCall EXCEPT !.op = "OpenStore"],
              IF OsMkdirAllOk(f, Root) THEN "nil" ELSE "notdir")]
  /\ UNCHANGED now

(***************************************************************************)
(* Store.Create (store.go 44-116).  One action for each call of the        *)
(* filesystem; what lies between two of them reads and writes only the     *)
(* call's own variables.                                                   *)
(***************************************************************************)
\* 45-48: root := filepath.Join(s.root, prefix); os.MkdirAll(root)
CreateBegin(i, base, f, prefix, r) ==
  LET dir == PrefixDir(prefix)
      c   == [NoCall EXCEPT !.op = "Create", !.prefix = prefix, !.r = r]
  IN  /\ fs' = OsMkdirAll(f, dir)
      /\ calls' = [base EXCEPT ![i] =
           IF OsMkdirAllOk(f, dir) THEN [c EXCEPT !.pc = "TempFile"]
           ELSE Return(c, "notdir")]
      /\ UNCHANGED now

\* 50-58: ioutil.TempFile(root, "~tmp"), a name no entry of the directory
\* has; the removal of that name is deferred
CreateTempFile(i) ==
  LET c   == calls[i]
      dir == PrefixDir(c.prefix)
  IN  /\ c.op = "Create" /\ c.pc = "TempFile"
      /\ IF ~IsDir(fs, dir)
           THEN /\ calls' = [calls EXCEPT ![i] = Return(c, "notexist")]
                /\ fs' = fs
           ELSE \E t \in FreeTmp(fs, dir) :
                  /\ fs' = [q \in (DOMAIN fs) \cup {Append(dir, t)} |->
                              IF q = Append(dir, t)
                                THEN FileNode(<< >>, now, i) ELSE fs[q]]
                  /\ calls' = [calls EXCEPT ![i] =
                       [c EXCEPT !.pc = "WriteTo", !.tmp = Append(dir, t)]]
      /\ UNCHANGED << now, ghost >>

\* 61-96: the input is read (Peek, WriteTo) and written to the temporary
\* file, which is closed; the name is computed from the bytes written.  The
\* reader gives its content, or fails before it gives any (the contents are
\* shorter than the 512 bytes of Peek): then the file is closed and the
\* error returned.
CreateWriteTo(i) ==
  LET c == calls[i]
  IN  /\ c.op = "Create" /\ c.pc = "WriteTo"
      /\ fs' = WriteClose(fs, i, c.r.data, now)
      /\ calls' = [calls EXCEPT ![i] =
           IF c.r.fails THEN [c EXCEPT !.pc = "Defer", !.err = "reader"]
           ELSE [c EXCEPT !.pc = "Chtimes", !.data = c.r.data,
                          !.name = NameOf[c.r.data],
                          !.path = FullNames[c.prefix, NameOf[c.r.data]]]]
      /\ UNCHANGED << now, ghost >>

\* a faulty step 98-103, which takes the file to be absent without a look
CreateChtimesBlind(i) ==
  LET c == calls[i]
  IN  /\ c.op = "Create" /\ c.pc = "Chtimes"
      /\ calls' = [calls EXCEPT ![i] = [c EXCEPT !.pc = "MkdirAll", !.now = now]]
      /\ UNCHANGED << fs, now, ghost >>

\* 98-103: now := time.Now(); os.Chtimes(name, now, now); when it succeeds
\* the file is there already and the call returns
CreateChtimes(i) ==
  LET c == calls[i]
  IN  /\ c.op = "Create" /\ c.pc = "Chtimes"
      /\ fs' = OsChtimes(fs, c.path, now)
      /\ calls' = [calls EXCEPT ![i] =
           IF OsChtimesOk(fs, c.path)
             THEN [c EXCEPT !.pc = "Defer", !.err = "nil", !.via = "touch", !.now = now]
             ELSE [c EXCEPT !.pc = "MkdirAll", !.now = now]]
      /\ UNCHANGED << now, ghost >>

\* 105-108: os.MkdirAll(filepath.Dir(name))
CreateMkdirAll(i) ==
  LET c == calls[i]
  IN  /\ c.op = "Create" /\ c.pc = "MkdirAll"
      /\ fs' = OsMkdirAll(fs, DirOf(c.path))
      /\ calls' = [calls EXCEPT ![i] =
           IF OsMkdirAllOk(fs, DirOf(c.path))
             THEN [c EXCEPT !.pc = "Rename"]
             ELSE [c EXCEPT !.pc = "Defer", !.err = "notdir"]]
      /\ UNCHANGED << now, ghost >>

\* 110-115: os.Rename(tmpfile.Name(), name)
CreateRename(i) ==
  LET c == calls[i]
  IN  /\ c.op = "Create" /\ c.pc = "Rename"
      /\ fs' = OsRename(fs, c.tmp, c.path)
      /\ calls' = [calls EXCEPT ![i] =
           IF OsRenameOk(fs, c.tmp, c.path)
             THEN [c EXCEPT !.pc = "Defer", !.err = "nil", !.via = "rename"]
             ELSE [c EXCEPT !.pc = "Defer", !.err = "rename"]]
      /\ UNCHANGED << now, ghost >>

\* 58: defer os.Remove(tmpfile.Name()), then the call returns
CreateDefer(i) ==
  LET c == calls[i]
  IN  /\ c.op = "Create" /\ c.pc = "Defer"
      /\ fs' = OsRemove(fs, c.tmp)
      /\ calls' = [calls EXCEPT ![i] = Return(c, c.err)]
      /\ UNCHANGED << now, ghost >>

(***************************************************************************)
(* Store.Open (store.go 123-150).                                          *)
(***************************************************************************)
\* a faulty step 124-144, which takes a missing file for an empty one
OpenBeginCreating(i, base, f, prefix, name) ==
  LET c    == [NoCall EXCEPT !.op = "Open", !.prefix = prefix, !.name = name]
      full == FullNames[prefix, name]
      made == Len(name) >= NameLen /\ ~Exists(f, full)
  IN  /\ calls' = [base EXCEPT ![i] =
           IF Len(name) < NameLen THEN Return(c, "ErrNotFound")
           ELSE IF made THEN [c EXCEPT !.pc = "Chtimes", !.path = full]
           ELSE IF IsDir(f, full) THEN Return([c EXCEPT !.path = full], "permission")
           ELSE [c EXCEPT !.pc = "Chtimes", !.path = full, !.data = f[full].data]]
      /\ fs' = f
      /\ UNCHANGED now

\* 124-145: the length check, os.Open, Stat and IsDir
OpenBegin(i, base, f, prefix, name) ==
  LET c    == [NoCall EXCEPT !.op = "Open", !.prefix = prefix, !.name = name]
      full == FullNames[prefix, name]
  IN  /\ calls' = [base EXCEPT ![i] =
           IF Len(name) < NameLen THEN Return(c, "ErrNotFound")
           ELSE IF ~Exists(f, full) THEN Return([c EXCEPT !.path = full], "notexist")
           ELSE IF IsDir(f, full) THEN Return([c EXCEPT !.path = full], "permission")
           ELSE [c EXCEPT !.pc = "Chtimes", !.path = full, !.data = f[full].data]]
      /\ fs' = f
      /\ UNCHANGED now

\* a faulty step 147-149, which leaves the modification time alone
OpenChtimesNever(i) ==
  LET c == calls[i]
  IN  /\ c.op = "Open" /\ c.pc = "Chtimes"
      /\ calls' = [calls EXCEPT ![i] = Return([c EXCEPT !.now = now], "nil")]
      /\ UNCHANGED << fs, now, ghost >>

\* 147-149: os.Chtimes(fullName, now, now), its error ignored
OpenChtimes(i) ==
  LET c == calls[i]
  IN  /\ c.op = "Open" /\ c.pc = "Chtimes"
      /\ fs' = OsChtimes(fs, c.path, now)
      /\ calls' = [calls EXCEPT ![i] = Return([c EXCEPT !.now = now], "nil")]
      /\ UNCHANGED << now, ghost >>

(***************************************************************************)
(* Store.Remove (store.go 153-170).                                        *)
(***************************************************************************)
\* a faulty step 154-161, without the check of the length of the name
RemoveBeginUnchecked(i, base, f, prefix, name) ==
  LET c    == [NoCall EXCEPT !.op = "Remove", !.prefix = prefix, !.name = name]
      full == FullNames[prefix, name]
  IN  /\ fs' = OsRemove(f, full)
      /\ calls' = [base EXCEPT ![i] =
           IF OsRemoveOk(f, full)
             THEN [c EXCEPT !.pc = "Prune", !.path = DirOf(full)]
           ELSE IF Exists(f, full)
             THEN Return([c EXCEPT !.path = full], "notempty")
           ELSE Return([c EXCEPT !.path = full], "notexist")]
      /\ UNCHANGED now

\* 154-161: the length check and os.Remove(fullName)
RemoveBegin(i, base, f, prefix, name) ==
  LET c    == [NoCall EXCEPT !.op = "Remove", !.prefix = prefix, !.name = name]
      full == FullNames[prefix, name]
  IN  IF Len(name) < NameLen
        THEN /\ calls' = [base EXCEPT ![i] = Return(c, "ErrNotFound")]
             /\ fs' = f
             /\ UNCHANGED now
        ELSE /\ fs' = OsRemove(f, full)
             /\ calls' = [base EXCEPT ![i] =
                  IF OsRemoveOk(f, full)
                    THEN [c EXCEPT !.pc = "Prune", !.path = DirOf(full)]
                  ELSE IF Exists(f, full)
                    THEN Return([c EXCEPT !.path = full], "notempty")
                  ELSE Return([c EXCEPT !.path = full], "notexist")]
             /\ UNCHANGED now

\* a faulty step 163-169, which leaves the directories alone
RemovePruneNever(i) ==
  LET c == calls[i]
  IN  /\ c.op = "Remove" /\ c.pc = "Prune"
      /\ calls' = [calls EXCEPT ![i] = Return(c, "nil")]
      /\ UNCHANGED << fs, now, ghost >>

\* 163-169: the two directories above, while they can be removed
RemovePrune(i) ==
  LET c == calls[i]
  IN  /\ c.op = "Remove" /\ c.pc = "Prune"
      /\ fs' = OsRemove(fs, c.path)
      /\ calls' = [calls EXCEPT ![i] =
           IF OsRemoveOk(fs, c.path) /\ c.k + 1 < PruneLevels
             THEN [c EXCEPT !.k = @ + 1, !.path = DirOf(c.path)]
             ELSE Return(c, "nil")]
      /\ UNCHANGED << now, ghost >>

(***************************************************************************)
(* Store.Clean (store.go 173-207).  filepath.Walk is a stack of            *)
(* directories, each with the names still to visit; it reads a directory's *)
(* names when it enters it and lstats each name when it comes to it.       *)
(***************************************************************************)
\* the walk goes on: the directories whose names are all visited are left;
\* the walk and the call end with the last of them
RECURSIVE Leave(_)
Leave(stack) ==
  IF stack # << >> /\ stack[Len(stack)].names = << >>
    THEN Leave(SubSeq(stack, 1, Len(stack) - 1))
    ELSE stack
Continue(c, stack) ==
  IF Leave(stack) = << >>
    THEN Return([c EXCEPT !.stack = << >>, !.path = << >>], "nil")
    ELSE [c EXCEPT !.pc = "Lstat", !.stack = Leave(stack), !.path = << >>]

\* a faulty end 203-205, which returns the not-exist error of the walk
WalkErrorReturned(c) ==
  Return([c EXCEPT !.via = "aborted", !.stack = << >>], "notexist")

\* Walk returns the error the callback was given: os.IsNotExist(err) makes
\* Clean return nil (203-205)
WalkError(c) == Return([c EXCEPT !.via = "aborted", !.stack = << >>], "nil")

\* 175-180: lifetime <= 0 is os.RemoveAll(s.root); otherwise valid is
\* computed and Walk lstats the root
CleanBegin(i, base, f, lifetime) ==
  LET c == [NoCall EXCEPT !.op = "Clean", !.valid = now - lifetime]
  IN  /\ fs' = IF lifetime <= 0 THEN OsRemoveAll(f, Root) ELSE f
      /\ calls' = [base EXCEPT ![i] =
           IF lifetime <= 0 THEN Return([c EXCEPT !.via = "all"], "nil")
           ELSE IF ~Exists(f, Root) THEN WalkError(c)
           ELSE IF IsDir(f, Root) THEN [c EXCEPT !.pc = "ReadDir", !.path = Root]
           ELSE Return(c, "nil")]
      /\ UNCHANGED now

\* walk: readDirNames(path) of a directory lstat has seen
CleanReadDir(i) ==
  LET c == calls[i]
  IN  /\ c.op = "Clean" /\ c.pc = "ReadDir"
      /\ calls' = [calls EXCEPT ![i] =
           IF ~Exists(fs, c.path) THEN WalkError(c)
           ELSE IF ~IsDir(fs, c.path) THEN Return(c, "notdir")
           ELSE Continue(c, Append(c.stack,
                    [dir |-> c.path, names |-> ReadDirNames(fs, c.path)]))]
      /\ UNCHANGED << fs, now, ghost >>

\* a faulty callback, which also skips the files modified at valid
CleanLstatStrict(i) ==
  LET c    == calls[i]
      top  == c.stack[Len(c.stack)]
      file == Append(top.dir, Head(top.names))
      rest == [c.stack EXCEPT ![Len(c.stack)].names = Tail(@)]
  IN  /\ c.op = "Clean" /\ c.pc = "Lstat"
      /\ calls' = [calls EXCEPT ![i] =
           IF ~Exists(fs, file) THEN WalkError(c)
           ELSE IF IsDir(fs, file)
             THEN [c EXCEPT !.pc = "ReadDir", !.path = file, !.stack = rest]
           ELSE IF fs[file].mt >= c.valid THEN Continue(c, rest)
           ELSE [c EXCEPT !.pc = "Remove", !.path = file, !.stack = rest]]
      /\ UNCHANGED << fs, now, ghost >>

\* walk: lstat of the next name; the callback (181-188) returns the error
\* of lstat, skips directories and files modified after valid
CleanLstat(i) ==
  LET c    == calls[i]
      top  == c.stack[Len(c.stack)]
      file == Append(top.dir, Head(top.names))
      rest == [c.stack EXCEPT ![Len(c.stack)].names = Tail(@)]
  IN  /\ c.op = "Clean" /\ c.pc = "Lstat"
      /\ calls' = [calls EXCEPT ![i] =
           IF ~Exists(fs, file) THEN WalkError(c)
           ELSE IF IsDir(fs, file)
             THEN [c EXCEPT !.pc = "ReadDir", !.path = file, !.stack = rest]
           ELSE IF fs[file].mt > c.valid THEN Continue(c, rest)
           ELSE [c EXCEPT !.pc = "Remove", !.path = file, !.stack = rest]]
      /\ UNCHANGED << fs, now, ghost >>

\* 190-192: os.Remove(filename), its error ignored
CleanRemove(i) ==
  LET c == calls[i]
  IN  /\ c.op = "Clean" /\ c.pc = "Remove"
      /\ fs' = OsRemove(fs, c.path)
      /\ calls' = [calls EXCEPT ![i] =
           IF OsRemoveOk(fs, c.path)
             THEN [c EXCEPT !.pc = "Prune", !.path = DirOf(c.path), !.k = 0]
             ELSE Continue(c, c.stack)]
      /\ UNCHANGED << now, ghost >>

\* 195-200: the two directories above, while they can be removed
CleanPrune(i) ==
  LET c == calls[i]
  IN  /\ c.op = "Clean" /\ c.pc = "Prune"
      /\ fs' = OsRemove(fs, c.path)
      /\ calls' = [calls EXCEPT ![i] =
           IF OsRemoveOk(fs, c.path) /\ c.k + 1 < PruneLevels
             THEN [c EXCEPT !.k = @ + 1, !.path = DirOf(c.path)]
             ELSE Continue(c, c.stack)]
      /\ UNCHANGED << now, ghost >>

\* time passes
Tick ==
  /\ now < MaxTime
  /\ now' = now + 1
  /\ UNCHANGED << fs, calls, ghost >>

(***************************************************************************)
(* The specifications.                                                     *)
(***************************************************************************)
\* a file outside the store
Outside == << << "o" >> >>

\* after Open(root): the root exists and is empty
InitFs ==
  (<< >> :> DirNode) @@ (Root :> DirNode) @@ (Outside :> FileNode(<< 111 >>, 0, 0))

Init ==
  /\ fs = InitFs
  /\ now = 0
  /\ calls = IdleCalls
  /\ nops = 0
  /\ pre = InitFs
  /\ prev = ""
  /\ stored = {}
  /\ removed = {}

\* Spec: up to MaxCalls calls, at most MaxConc of them running at a time, in
\* any interleaving of their steps.  Call i starts after call i - 1 has
\* started.
\* The calls that run together work under one prefix, on two contents whose
\* blobs share both shard directories, and the clock runs to ConcTime.
ConcPrefix == << >>
ConcContents == { << 97, 111 >>, << 119, 115, 100 >> }
ConcReaders == { Reader(c) : c \in ConcContents }
ConcNames == { NameOf[c] : c \in ConcContents }
ConcTick == now < ConcTime /\ Tick
Running == { i \in Slots : calls[i].pc \notin {"idle", "done"} }
Conc(i, most) ==
  /\ i <= MaxCalls
  /\ calls[i].pc = "idle"
  /\ \A j \in 1..(i - 1) : calls[j].pc # "idle"
  /\ Cardinality(Running) < most
  /\ UNCHANGED ghost

StartOpenStore(i) == Conc(i, MaxConc) /\ OpenStore(i, calls, fs)
StartCreate(i) ==
  Conc(i, MaxConc) /\ \E r \in ConcReaders : CreateBegin(i, calls, fs, ConcPrefix, r)
StartOpen(i) ==
  Conc(i, MaxConc) /\ \E n \in ConcNames : OpenBegin(i, calls, fs, ConcPrefix, n)
StartRemove(i) ==
  Conc(i, MaxConc) /\ \E n \in ConcNames : RemoveBegin(i, calls, fs, ConcPrefix, n)
StartClean(i) == Conc(i, MaxConc) /\ \E d \in Lifetimes : CleanBegin(i, calls, fs, d)

Step(i) ==
  \/ CreateTempFile(i)
  \/ CreateWriteTo(i)
  \/ CreateChtimes(i)
  \/ CreateMkdirAll(i)
  \/ CreateRename(i)
  \/ CreateDefer(i)
  \/ OpenChtimes(i)
  \/ RemovePrune(i)
  \/ CleanReadDir(i)
  \/ CleanLstat(i)
  \/ CleanRemove(i)
  \/ CleanPrune(i)

Next ==
  \/ \E i \in Slots :
       \/ StartOpenStore(i)
       \/ StartCreate(i)
       \/ StartOpen(i)
       \/ StartRemove(i)
       \/ StartClean(i)
       \/ Step(i)
  \/ ConcTick

Spec == Init /\ [][Next]_vars

\* SpecCreate: MaxCalls calls of Create, all of them running together
CreateAll(i) ==
  Conc(i, MaxCalls) /\ \E c \in ConcContents : CreateBegin(i, calls, fs, ConcPrefix, Reader(c))
NextCreate ==
  \/ \E i \in Slots :
       \/ CreateAll(i)
       \/ CreateTempFile(i)
       \/ CreateWriteTo(i)
       \/ CreateChtimes(i)
       \/ CreateMkdirAll(i)
       \/ CreateRename(i)
       \/ CreateDefer(i)
  \/ ConcTick

SpecCreate == Init /\ [][NextCreate]_vars

\* SpecSweep: a store that holds blobs written at time 0, at time ConcTime;
\* calls of Open, Remove and Clean run together
SweepFs(at, held) ==
  LET blob == { at[c] : c \in held }
      made == UNION { { SubSeq(q, 1, n) : n \in 0..(Len(q) - 1) } : q \in blob }
  IN  [q \in (DOMAIN InitFs) \cup made \cup blob |->
         IF q \in DOMAIN InitFs THEN InitFs[q]
         ELSE IF q \in blob THEN FileNode(CHOOSE c \in held : at[c] = q, 0, 0)
         ELSE DirNode]
InitSweep ==
  /\ \E at \in { [c \in Contents |-> BlobPath(ConcPrefix, c)] } :
       \E held \in (SUBSET Contents) \ {{}} : fs = SweepFs(at, held)
  /\ now = ConcTime
  /\ calls = IdleCalls
  /\ nops = 0
  /\ pre = InitFs
  /\ prev = ""
  /\ stored = {}
  /\ removed = {}
NextSweep ==
  \E i \in Slots :
    \/ StartOpen(i)
    \/ OpenChtimes(i)
    \/ StartRemove(i)
    \/ StartClean(i)
    \/ RemovePrune(i)
    \/ CleanReadDir(i)
    \/ CleanLstat(i)
    \/ CleanRemove(i)
    \/ CleanPrune(i)

SpecSweep == InitSweep /\ [][NextSweep]_vars

\* SpecSeq: SeqOps calls, call n started as call n of Slots when the one
\* before has returned; the clock ticks between the calls.
Quiet == \A i \in Slots : calls[i].pc \in {"idle", "done"}
Last == IF nops = 0 THEN NoCall ELSE calls[nops]
SeqStart(op) ==
  LET kept == IF Last.op = "Create" /\ Last.err = "nil"
                THEN stored \cup { << Last.prefix, Last.data, Last.name >> }
                ELSE stored
  IN  /\ Quiet
      /\ nops < SeqOps
      /\ nops' = nops + 1
      /\ pre' = fs
      /\ prev' = IF Last.op = "Clean" /\ Last.via = "all" /\ Last.err = "nil"
                   THEN "wiped"
                 ELSE IF Last.op = "OpenStore" /\ Last.err = "nil" /\ prev = "wiped"
                   THEN "reopened"
                 ELSE IF /\ Last.op \in {"Open", "Create"} /\ Last.err = "nil"
                         /\ Last.via \in {"", "touch"}
                         /\ Last.name \in { NameOf[c] : c \in Contents }
                         /\ pre[Last.path].mt < Last.now
                   THEN "touched"
                 ELSE ""
      /\ stored' = IF op \in {"Remove", "Clean"} THEN {} ELSE kept
      /\ removed' = IF Last.op = "Remove" /\ Last.err = "nil"
                      THEN removed \cup { << Last.prefix, Last.name >> }
                    ELSE IF Last.op = "Create" /\ Last.err = "nil"
                      THEN removed \ { << Last.prefix, Last.name >> }
                    ELSE removed

SeqOpenStore == SeqStart("OpenStore") /\ OpenStore(nops + 1, IdleCalls, fs)
SeqCreate ==
  SeqStart("Create")
    /\ \E pf \in Prefixes, r \in Readers : CreateBegin(nops + 1, IdleCalls, fs, pf, r)
SeqOpen ==
  SeqStart("Open")
    /\ \E pf \in Prefixes, n \in Names : OpenBegin(nops + 1, IdleCalls, fs, pf, n)
SeqRemove ==
  SeqStart("Remove")
    /\ \E pf \in Prefixes, n \in Names : RemoveBegin(nops + 1, IdleCalls, fs, pf, n)
SeqClean ==
  SeqStart("Clean") /\ \E d \in Lifetimes : CleanBegin(nops + 1, IdleCalls, fs, d)
SeqTick == Quiet /\ Tick

NextSeq ==
  \/ SeqOpenStore
  \/ SeqCreate
  \/ SeqOpen
  \/ SeqRemove
  \/ SeqClean
  \/ \E i \in Slots : Step(i)
  \/ SeqTick

SpecSeq == Init /\ [][NextSeq]_vars

\* SpecAbsPath: absPath is called once, with a name; the call records the name,
\* the path returned as a string (tmp) and in components (path), and the error
AbsPathCall ==
  \E name \in AbsNames :
    LET got == absPath(StoreRoot, name)
    IN  /\ calls[1].pc = "idle"
        /\ calls' = [IdleCalls EXCEPT ![1] =
             Return([NoCall EXCEPT !.op = "absPath", !.name = name,
                                   !.tmp = got.path,
                                   !.path = Components(got.path)], got.err)]
        /\ UNCHANGED << fs, now, ghost >>

NextAbsPath == AbsPathCall

SpecAbsPath == Init /\ [][NextAbsPath]_vars

(***************************************************************************)
(* The properties.                                                         *)
(***************************************************************************)
\* the temporary files of a filesystem
TmpFiles(f) == { p \in DOMAIN f : p # << >> /\ p[Len(p)] \in TmpNames }
\* the files a filesystem holds for a Name under a prefix: the files of the
\* prefix directory's shards whose file name is name[3:]
FilesFor(f, prefix, name) ==
  { p \in DOMAIN f : /\ IsFile(f, p)
                     /\ Len(p) = Len(PrefixDir(prefix)) + 3
                     /\ Under(p, PrefixDir(prefix))
                     /\ p[Len(p)] = SliceFrom(name, 3) }
\* SpecSeq: the call that runs or has just returned
Current == Last

\* C1: when Create(prefix, bytes) has returned a Name without error and no
\* Remove and no Clean has been started since, Open(prefix, Name) returns no
\* error and the stream it returns holds exactly the bytes.
C1_RoundTrip ==
  \A i \in Slots : \A e \in stored :
    (/\ calls[i].op = "Open" /\ calls[i].pc = "done"
     /\ calls[i].prefix = e[1] /\ calls[i].name = e[3])
      => calls[i].err = "nil" /\ calls[i].data = e[2]

\* C1 happens: an Open of a stored Name under the prefix "p" has returned
C1_Witness ==
  \E i \in Slots : \E e \in stored :
    /\ calls[i].op = "Open" /\ calls[i].pc = "done"
    /\ calls[i].prefix = e[1] /\ calls[i].name = e[3]
    /\ e[1] = << "p" >> /\ e[2] = << 119, 115, 100 >>
    /\ calls[i].err = "nil"

\* C2: a Create whose content an earlier Create of the same prefix has
\* stored (no Remove and no Clean started since) returns the same Name
\* without error; the store then holds exactly one file for the Name, the
\* file the earlier call left: this call has not written or replaced it,
\* only its modification time is now the time of the call; nothing else has
\* changed and no temporary file is left.
C2_Dedup ==
  \A e \in stored :
    (/\ Current.op = "Create" /\ Current.pc = "done" /\ ~Current.r.fails
     /\ Current.prefix = e[1] /\ Current.r.data = e[2])
      => /\ Current.err = "nil"
         /\ Current.name = e[3]
         /\ FilesFor(fs, e[1], e[3]) = { Current.path }
         /\ fs[Current.path].by # nops
         /\ fs = [pre EXCEPT ![Current.path].mt = Current.now]
         /\ TmpFiles(fs) = {}

\* C2 happens: the second Create has returned, later than the file was last
\* modified
C2_Witness ==
  \E e \in stored :
    /\ Current.op = "Create" /\ Current.pc = "done"
    /\ Current.prefix = e[1] /\ Current.r.data = e[2]
    /\ Current.via = "touch"
    /\ pre[Current.path].mt < Current.now

\* SpecCreate: the calls that have started
Started == { i \in Slots : calls[i].pc # "idle" }

\* C3: when two or more calls of Create run together, all with the same
\* content and prefix, every one of them returns without error and with the
\* Name of the content; when all have returned the store holds exactly one
\* file for the Name and no temporary file.
C3_ConcurrentIdentical ==
  (/\ Cardinality(Started) >= 2
   /\ \A i, j \in Started : calls[i].r = calls[j].r /\ calls[i].prefix = calls[j].prefix)
    => /\ \A i \in Started :
            calls[i].pc = "done"
              => calls[i].err = "nil" /\ calls[i].name = NameOf[calls[i].r.data]
       /\ (\A i \in Started : calls[i].pc = "done")
            => \A i \in Started :
                 /\ FilesFor(fs, calls[i].prefix, calls[i].name) = { calls[i].path }
                 /\ TmpFiles(fs) = {}

\* C3 happens: three calls with the same content have returned, two of them
\* have renamed their temporary file to the blob's path and one has found it
C3_Witness ==
  /\ Started = 1..MaxCalls
  /\ \A i, j \in Started : calls[i].r = calls[j].r /\ calls[i].pc = "done"
  /\ Cardinality({ i \in Started : calls[i].via = "rename" }) = 2
  /\ Cardinality({ i \in Started : calls[i].via = "touch" }) = 1

\* the content whose blob is stored at path p, if there is one
ContentsAt(p) == { c \in Contents : \E pf \in Prefixes : BlobPath(pf, c) = p }

\* C4: in every state every file at a blob's path holds the complete content
\* the path names; a file that is still written is never at a blob's path.
C4_AtomicInstall ==
  \A p \in BlobPaths :
    IsFile(fs, p) => ~fs[p].w /\ \A c \in ContentsAt(p) : fs[p].data = c

\* the path Open and Remove resolve a name of NameLen characters or more to
Target(c) == FullNames[c.prefix, c.name]
\* the errors that say the name is forbidden or not there
Refusals == { "ErrNotFound", "notexist", "permission" }

\* C5: a call of Open or Remove, whatever its name, returns a forbidden or
\* not-found error or has acted on a path at or below the store root; the
\* file outside the root is never touched or deleted.
C5_InsideRoot ==
  /\ \A i \in Slots :
       (calls[i].op \in {"Open", "Remove"} /\ calls[i].pc = "done")
         => calls[i].err \in Refusals \/ Under(Target(calls[i]), Root)
  /\ Outside \in DOMAIN fs /\ fs[Outside] = InitFs[Outside]

\* C6: absPath returns os.ErrPermission or a canonical path that is the
\* root or below it component by component, at most KeptParts components
\* below.
C6_AbsPathConfined ==
  \A i \in Slots :
    (calls[i].op = "absPath" /\ calls[i].pc = "done")
      => \/ calls[i].err = "ErrPermission"
         \/ /\ calls[i].err = "nil"
            /\ calls[i].tmp = FilepathClean(calls[i].tmp)
            /\ Under(calls[i].path, Root)
            /\ Len(calls[i].path) <= Len(Root) + KeptParts

\* the Names of the contents
ContentNames == { NameOf[c] : c \in Contents }
\* SpecSeq: what a Remove that has returned nil has found in the shard
\* directories of its target
InnerAlone == Entries(pre, DirOf(Target(Current))) = { Target(Current) }
OuterAlone == Entries(pre, DirOf(DirOf(Target(Current)))) = { DirOf(Target(Current)) }

\* C7: when Remove(prefix, name) of a blob's Name has returned nil, the
\* blob's file is gone; its inner shard directory is gone iff it had no other
\* entry, its outer one iff the inner one is gone and it had no other entry;
\* nothing else has changed, and the prefix directory and the root are there.
C7_RemovePrunes ==
  (/\ Current.op = "Remove" /\ Current.pc = "done" /\ Current.err = "nil"
   /\ Current.name \in ContentNames)
    => /\ fs = Drop(pre, { Target(Current) }
                       \cup (IF InnerAlone THEN { DirOf(Target(Current)) } ELSE {})
                       \cup (IF InnerAlone /\ OuterAlone
                               THEN { DirOf(DirOf(Target(Current))) } ELSE {}))
       /\ IsDir(fs, Root)
       /\ IsDir(fs, PrefixDir(Current.prefix))

\* C7 happens: a Remove has returned nil, its inner shard directory had no
\* other entry and its outer one had
C7_Witness ==
  /\ Current.op = "Remove" /\ Current.pc = "done" /\ Current.err = "nil"
  /\ Current.name \in ContentNames
  /\ InnerAlone /\ ~OuterAlone

\* the files of a filesystem at or below the store root
StoreFiles(f) == { p \in DOMAIN f : IsFile(f, p) /\ Under(p, Root) }

\* C8: when a Clean(D), D > 0, that ran alone has returned, it has returned
\* nil, every file of the store last modified at or before now - D is gone,
\* and every file modified later is there as it was, with its directories.
C8_CleanByAge ==
  (Current.op = "Clean" /\ Current.pc = "done" /\ Current.via # "all")
    => /\ Current.err = "nil"
       /\ \A p \in StoreFiles(pre) :
            IF pre[p].mt <= Current.valid
              THEN p \notin DOMAIN fs
              ELSE /\ p \in DOMAIN fs /\ fs[p] = pre[p]
                   /\ \A n \in 0..Len(p) : IsDir(fs, SubSeq(p, 1, n)) \/ n = Len(p)

\* C8 happens: a Clean(D) has returned; one file was modified at now - D,
\* another one later
C8_Witness ==
  /\ Current.op = "Clean" /\ Current.pc = "done" /\ Current.via # "all"
  /\ \E p, q \in StoreFiles(pre) :
       pre[p].mt = Current.valid /\ pre[q].mt > Current.valid

\* C9: when Clean(lifetime <= 0) has returned it has returned nil and
\* nothing is at or below the root; an Open(prefix, name) that follows it
\* fails; an Open(root) that follows it returns nil, and the root is there
\* and empty; a Create that follows that one stores its content.
C9_WipeAndReopen ==
  /\ (Current.op = "Clean" /\ Current.pc = "done" /\ Current.via = "all")
       => Current.err = "nil" /\ \A p \in DOMAIN fs : ~Under(p, Root)
  /\ (prev = "wiped" /\ Current.op = "Open" /\ Current.pc = "done")
       => Current.err # "nil"
  /\ (prev = "wiped" /\ Current.op = "OpenStore" /\ Current.pc = "done")
       => Current.err = "nil" /\ IsDir(fs, Root) /\ Entries(fs, Root) = {}
  /\ (/\ prev = "reopened" /\ Current.op = "Create" /\ Current.pc = "done"
      /\ ~Current.r.fails)
       => /\ Current.err = "nil"
          /\ IsFile(fs, Current.path)
          /\ fs[Current.path].data = Current.r.data

\* C10: when a Create has returned nil, no Remove and no Clean(lifetime <= 0)
\* has run, and every Clean(D) there is has now - D before the time of the
\* Create, the blob is at its path.
C10_FreshBlobSurvives ==
  \A i \in Slots :
    (/\ calls[i].op = "Create" /\ calls[i].pc = "done" /\ calls[i].err = "nil"
     /\ \A k \in Slots :
          /\ calls[k].op # "Remove"
          /\ calls[k].op = "Clean"
               => calls[k].via # "all" /\ calls[k].valid < calls[i].now)
      => IsFile(fs, calls[i].path)

\* C4 fails: a blob's path holds a file that does not hold the blob's content
C4_Witness ==
  \E p \in BlobPaths : IsFile(fs, p) /\ \E c \in ContentsAt(p) : fs[p].data # c

\* C5 fails: a Remove has returned nil and the file outside the root is gone
C5_Witness ==
  /\ Outside \notin DOMAIN fs
  /\ \E i \in Slots :
       calls[i].op = "Remove" /\ calls[i].pc = "done" /\ calls[i].err = "nil"

\* C6 fails: absPath has returned a path of a sibling directory of the root
C6_Witness ==
  \E i \in Slots :
    /\ calls[i].op = "absPath" /\ calls[i].pc = "done" /\ calls[i].err = "nil"
    /\ calls[i].path = << << "s", "2" >>, << "x" >> >>

\* C9 fails: after Clean(lifetime <= 0) an Open has returned nil
C9_Witness ==
  prev = "wiped" /\ Current.op = "Open" /\ Current.pc = "done" /\ Current.err = "nil"

\* C10 fails: a Create has found its blob, touched it and returned nil, a
\* Clean(D) with now - D before the touch has removed the blob
C10_Witness ==
  \E i, k \in Slots :
    /\ calls[i].op = "Create" /\ calls[i].pc = "done" /\ calls[i].err = "nil"
    /\ calls[i].via = "touch"
    /\ calls[k].op = "Clean" /\ calls[k].via # "all"
    /\ calls[k].valid < calls[i].now
    /\ \A j \in Slots : calls[j].op # "Remove"
    /\ ~Exists(fs, calls[i].path)

\* C11: a Create with a good reader that has returned, next to calls of
\* Create, of Remove of other Names and of Clean(D), D > 0, has returned nil,
\* and when there is no Clean its blob is at its path.
C11_CreateSurvivesPruning ==
  \A i \in Slots :
    (/\ calls[i].op = "Create" /\ calls[i].pc = "done" /\ ~calls[i].r.fails
     /\ \A k \in Slots \ {i} :
          \/ calls[k].op \in {"none", "Create"}
          \/ calls[k].op = "Remove" /\ calls[k].name # NameOf[calls[i].r.data]
          \/ calls[k].op = "Clean" /\ calls[k].via # "all")
      => /\ calls[i].err = "nil"
         /\ (\A k \in Slots : calls[k].op # "Clean") => IsFile(fs, calls[i].path)

\* C11 fails: a Create has made the shard directories, a Remove of another
\* blob has pruned them, the rename has failed; no other Create had the same
\* temporary file
C11_Witness ==
  \E i, k \in Slots :
    /\ calls[i].op = "Create" /\ calls[i].pc = "done" /\ calls[i].err = "rename"
    /\ calls[k].op = "Remove" /\ calls[k].pc = "done" /\ calls[k].err = "nil"
    /\ calls[k].name # calls[i].name
    /\ \A j \in Slots \ {i, k} :
         calls[j].op = "Create" /\ calls[j].pc = "done" /\ calls[j].tmp # calls[i].tmp

\* C12: in a store of blobs where Open, Remove and Clean run together, an
\* Open that has opened its file holds the whole content of its name, and
\* otherwise has returned the not-exist error; a Remove that starts on a
\* blob held by a running Open deletes it and returns nil.
C12_OpenRacesRemove ==
  [][/\ \A i \in Slots :
          (calls'[i].op = "Open" /\ calls'[i].pc \in {"Chtimes", "done"}
           /\ calls'[i].name \in ContentNames)
            => \/ /\ calls'[i].err \in {"", "nil"}
                  /\ calls'[i].data \in Contents
                  /\ NameOf[calls'[i].data] = calls'[i].name
               \/ calls'[i].err = "notexist"
     /\ \A k \in Slots :
          (/\ calls[k].op = "none" /\ calls'[k].op = "Remove"
           /\ \E i \in Slots : /\ calls[i].op = "Open" /\ calls[i].pc = "Chtimes"
                                /\ calls[i].name = calls'[k].name
                                /\ calls[i].prefix = calls'[k].prefix
                                /\ IsFile(fs, calls[i].path))
            => /\ calls'[k].pc = "Prune"
               /\ ~Exists(fs', Target(calls'[k]))
     /\ \A k \in Slots :
          (calls[k].op = "Remove" /\ calls[k].pc = "Prune" /\ calls'[k].pc = "done")
            => calls'[k].err = "nil"]_vars

\* C12 happens: an Open holds the content of a blob that a Remove has deleted
\* before the Open has returned
C12_Witness ==
  \E i, k \in Slots :
    /\ calls[i].op = "Open" /\ calls[i].pc = "Chtimes"
    /\ calls[i].data \in Contents /\ NameOf[calls[i].data] = calls[i].name
    /\ calls[k].op = "Remove" /\ calls[k].name = calls[i].name
    /\ calls[k].pc \in {"Prune", "done"} /\ calls[k].err \in {"", "nil"}
    /\ ~Exists(fs, calls[i].path)

\* C13: an Open or a Remove with a name of fewer than NameLen characters,
\* under every prefix, has returned ErrNotFound and has left the file system
\* as it was.
C13_ShortNameRefused ==
  (nops > 0 /\ Current.op \in {"Open", "Remove"} /\ Current.pc = "done"
   /\ Len(Current.name) < NameLen)
    => Current.err = "ErrNotFound" /\ fs = pre

\* C13 happens: a Remove of the longest too-short name, under a prefix that
\* holds a blob
C13_Witness ==
  /\ nops > 0 /\ Current.op = "Remove" /\ Current.pc = "done"
  /\ Current.name = AlmostName /\ Current.prefix # << >>
  /\ Current.err = "ErrNotFound"
  /\ \E c \in Contents : IsFile(fs, BlobPath(Current.prefix, c))

\* C14: when a Create returns through its deferred os.Remove, no file made
\* by that call is left under its temporary name, and the file the deferred
\* os.Remove deletes, if any, is one the call has made itself.
C14_DeferRemovesOwnFile ==
  [][\A i \in Slots :
       (calls[i].op = "Create" /\ calls[i].pc = "Defer" /\ calls'[i].pc = "done")
         => /\ ~(IsFile(fs', calls[i].tmp) /\ fs'[calls[i].tmp].by = i)
            /\ \A p \in (DOMAIN fs) \ (DOMAIN fs') : fs[p].k = "f" /\ fs[p].by = i]_vars

\* C14 fails: a Create that has installed its blob has returned, and the
\* temporary file of another Create, still running, is gone
C14_Witness ==
  \E i, j \in Slots :
    /\ i # j
    /\ calls[i].op = "Create" /\ calls[i].pc = "done" /\ calls[i].via = "rename"
    /\ calls[j].op = "Create" /\ calls[j].pc \in {"WriteTo", "Chtimes", "MkdirAll", "Rename"}
    /\ calls[j].tmp = calls[i].tmp
    /\ ~Exists(fs, calls[j].tmp)

\* C15: a Clean(D), D > 0, that has returned next to calls of Remove, in a
\* store where nothing is written, has returned nil and has left no blob
\* with a modification time at or before its valid.
C15_SweepGoesOn ==
  \A i \in Slots :
    (calls[i].op = "Clean" /\ calls[i].pc = "done" /\ calls[i].via # "all")
      => /\ calls[i].err = "nil"
         /\ \A p \in BlobPaths : IsFile(fs, p) => fs[p].mt > calls[i].valid

\* C15 fails: the walk of a Clean has ended at an entry a Remove has deleted
\* after the listing, and a stale blob is left
C15_Witness ==
  \E i, k \in Slots :
    /\ calls[i].op = "Clean" /\ calls[i].pc = "done" /\ calls[i].via = "aborted"
    /\ calls[k].op = "Remove" /\ calls[k].pc = "done" /\ calls[k].err = "nil"
    /\ \E p \in BlobPaths : IsFile(fs, p) /\ fs[p].mt <= calls[i].valid

\* C16: when an Open of a blob, or a Create that has found its blob stored,
\* has returned nil, the blob's modification time is the time of the call;
\* a Clean(D), D > 0, that ran alone has kept, with its modification time,
\* every blob modified after now - D.
C16_TouchKeepsBlob ==
  /\ (/\ nops > 0 /\ Current.pc = "done" /\ Current.err = "nil"
      /\ \/ Current.op = "Open" /\ Current.name \in ContentNames
         \/ Current.op = "Create" /\ Current.via = "touch")
       => IsFile(fs, Current.path) /\ fs[Current.path].mt = Current.now
  /\ (Current.op = "Clean" /\ Current.pc = "done" /\ Current.via # "all")
       => \A p \in BlobPaths :
            (IsFile(pre, p) /\ pre[p].mt > Current.valid)
              => IsFile(fs, p) /\ fs[p].mt = pre[p].mt

\* C16 happens: the call before has given a blob written earlier a new
\* modification time, the Clean after it has kept the blob, and the time
\* the blob had before is not after the Clean's valid
C16_Witness ==
  /\ Current.op = "Clean" /\ Current.pc = "done" /\ Current.via \notin {"all", "aborted"}
  /\ prev = "touched"
  /\ \E p \in BlobPaths :
       /\ IsFile(pre, p) /\ IsFile(fs, p)
       /\ pre[p].mt > Current.valid /\ pre[p].mt - 1 <= Current.valid

\* C17: when a Create has returned an error, the file system is the one
\* before the call: the same blobs with the same contents, the same
\* directories, no temporary file.
C17_FailedCreateCommitsNothing ==
  (nops > 0 /\ Current.op = "Create" /\ Current.pc = "done" /\ Current.err # "nil")
    => fs = pre

\* C17 fails: a Create has returned the error of its reader and has left a
\* directory that was not there before
C17_Witness ==
  /\ nops > 0 /\ Current.op = "Create" /\ Current.pc = "done" /\ Current.err = "reader"
  /\ \E d \in DOMAIN fs : IsDir(fs, d) /\ d \notin DOMAIN pre
  /\ \A q \in DOMAIN pre : q \in DOMAIN fs /\ fs[q] = pre[q]

\* C18: an Open or a Remove of a name that a Remove has deleted, with no
\* Create that has returned that name under that prefix since, has returned
\* the not-exist error and has left the file system as it was.
C18_RemovedStaysGone ==
  \A e \in removed :
    (/\ Current.op \in {"Open", "Remove"} /\ Current.pc = "done"
     /\ Current.prefix = e[1] /\ Current.name = e[2])
      => Current.err = "notexist" /\ fs = pre

\* C18 happens: a second Remove of a blob's Name has returned, under a
\* prefix whose directory is still there
C18_Witness ==
  \E e \in removed :
    /\ Current.op = "Remove" /\ Current.pc = "done"
    /\ Current.prefix = e[1] /\ Current.name = e[2]
    /\ Current.name \in ContentNames
    /\ Current.prefix # << >> /\ IsDir(fs, PrefixDir(Current.prefix))

\* C19: a Clean(D), D > 0, that ran alone in a store whose root was not
\* there, or in a store with no blob modified at or before now - D, has
\* returned nil and has left the file system as it was.
C19_NothingToClean ==
  (/\ nops > 0 /\ Current.op = "Clean" /\ Current.pc = "done" /\ Current.via # "all"
   /\ \/ ~Exists(pre, Root)
      \/ \A p \in BlobPaths : IsFile(pre, p) => pre[p].mt > Current.valid)
    => Current.err = "nil" /\ fs = pre

\* C19 happens: a Clean(D), D > 0, has returned after a Clean(lifetime <= 0)
\* has removed the root
C19_Witness ==
  /\ nops > 0 /\ Current.op = "Clean" /\ Current.pc = "done" /\ Current.via # "all"
  /\ prev = "wiped"
  /\ ~Exists(pre, Root)

\* what a Clean(D), D > 0, may delete: the blobs and their two shard
\* directories
Sweepable ==
  BlobPaths \cup { DirOf(p) : p \in BlobPaths } \cup { DirOf(DirOf(p)) : p \in BlobPaths }

\* C20: every path a step of Clean(D), D > 0, deletes is a blob or one of a
\* blob's two shard directories: not the temporary file of a running Create,
\* not the root, not a prefix directory, nothing above the root.
C20_CleanDeletesOnlyBlobs ==
  [][\A i \in Slots :
       (/\ calls[i].op = "Clean" /\ calls[i].pc \in {"Remove", "Prune"}
        /\ calls'[i] # calls[i])
         => \A p \in (DOMAIN fs) \ (DOMAIN fs') : p \in Sweepable]_vars

\* C20 fails: with no Clean(lifetime <= 0) among the calls, a Clean has
\* deleted the temporary file of a Create that is still running, and the
\* root with it
C20_Witness ==
  /\ \A k \in Slots : calls[k].via # "all" /\ calls[k].op # "Remove"
  /\ \E i, j \in Slots :
       /\ calls[i].op = "Clean" /\ calls[i].pc = "done"
       /\ calls[j].op = "Create" /\ calls[j].pc \in {"WriteTo", "Chtimes", "MkdirAll", "Rename"}
       /\ ~Exists(fs, calls[j].tmp)
       /\ ~Exists(fs, Root)
====
